---- MODULE Spec2Model ----
(***************************************************************************)
(* Redirect resolution and click tracking of the LinkForge URL shortener.  *)
(*                                                                         *)
(* The Directory is the Postgres schema of supabase/migrations (tables     *)
(* links and link_analytics, their row level security policies and the     *)
(* increment_click_count function).  The Resolver is the RedirectHandler   *)
(* component: handleRedirect and the trackClick closure it starts.  The    *)
(* owner's switches are the Dashboard's toggleActive and handleDelete;     *)
(* links are created by the LandingPage's handleShorten.                   *)
(*                                                                         *)
(* Every await of the source is a point where other requests interleave:   *)
(* a request is sent in one step, executed by the database in another and  *)
(* its answer is handled by the continuation in a third.                   *)
(***************************************************************************)
EXTENDS Integers, Sequences, FiniteSets, TLC

\* ------------------------------------------------------------------ bounds
MaxTime == 2     \* the clock runs over 0..MaxTime
MaxCount == 2    \* increment_click_count is called while click_count < MaxCount
MaxTicks == 1    \* the clock of the client runs over MaxTicks steps of ResetGapMs

\* --------------------------------------------------------------- constants
NULL == "NULL"   \* SQL NULL / JS null of a text or uuid value
NullTime == -1   \* SQL NULL of the nullable timestamptz column expires_at

Users == {"u1", "u2"}           \* auth.users
Uids == Users \cup {NULL}       \* auth.uid() of a session; NULL is the anon role
Ids == {"L1", "L2"}             \* links.id
\* two page loads of /:shortCode: a claim is about one resolution against the
\* Directory, or about two of them, one after or beside the other
Resolutions == {1, 2}
\* two clicks on "Shorten": a claim is about one creation, or about two that
\* run beside each other
Creations == {1, 2}
Times == 0..MaxTime

\* what a visitor can put after the slash: the code of a link, a code that was
\* never created and the empty path segment
ShortCodes == {"abc1234", "nosuch1", ""}

\* what generateShortCode() can hand back: it takes no argument and returns at
\* once, so its result does not depend on the Directory; two calls can return
\* the same code
Codes == {"abc1234", "xyz9876"}

\* what the visitor typed into the url field: a valid URL, or nothing
Urls == {"https://example.com/page", ""}

\* expiresAt.setDate(expiresAt.getDate() + 7), the clock counting days
ExpiryDays == 7

\* columns named by the resolver's select (RedirectHandler.tsx:39)
SelectColumns == {"id", "original_url", "is_active", "expires_at"}

\* texts handed to setError
MsgNotConfigured == "Database connection not configured. Please check your environment variables."
MsgDeactivated == "This link has been deactivated"
MsgExpired == "This link has expired"
MsgConnect == "Unable to connect to database. Please check your internet connection or contact support."
MsgUnexpected == "An unexpected error occurred while processing your request."

\* texts handed to toast by handleShorten
MsgEnterUrl == "Please enter a URL"
MsgShortened == "URL shortened successfully!"
MsgConnectionFailed == "Connection failed. Please check your Supabase configuration and internet connection."
MsgShortenNotConfigured == "Supabase not configured. Please set up your environment variables."
MsgShortenFailed == "Failed to shorten URL. Please check your database setup."

VARIABLES
  links,            \* table links: id -> row
  link_analytics,   \* table link_analytics: set of rows
  configured,       \* VITE_SUPABASE_URL / VITE_SUPABASE_ANON_KEY pass the check
  now,              \* wall clock
  res,              \* the resolutions: one RedirectHandler mount each
  shorten,          \* the creations: one handleShorten call of a LandingPage each
  dash,             \* the state of a Dashboard component
  client            \* the module state of lib/supabase.ts and its callers

vars == <<links, link_analytics, configured, now, res, shorten, dash, client>>

\* ---------------------------------------------------------------- Directory

\* ------------------------------------------------------------------- client

\* the calls of executeQuery that are followed
Queries == {1, 2}

\* maxRetries as the callers pass it
RetryOptions == {1, 2}

ResetGapMs == 10000   \* now - lastReset < 10000: the reset returns at once
CheckGapMs == 5000    \* now - lastCheck < 5000: the health check is skipped
CorruptionAt == 2     \* consecutiveFailures >= 2 marks network corruption
AggressiveAt == 3     \* consecutiveTimeouts >= 3: aggressiveNetworkReset
NuclearAt == 5        \* consecutiveTimeouts >= 5: nuclearNetworkReset

MsgQueryNotConfigured == "Supabase not configured. Please check your .env file."
MsgQueryTimeout == "Query timeout"
MsgQueryFailed == "query failed"

\* the literal resetSupabaseClient assigns to clientHealthState; with
\* lastReset 0 it is the value the module starts with
HealthyState(lastReset) ==
  [isHealthy |-> TRUE, lastCheck |-> 0, consecutiveFailures |-> 0,
   lastReset |-> lastReset, networkCorruptionDetected |-> FALSE,
   consecutiveTimeouts |-> 0]

\* a call of executeQuery that has not been made
NotCalled ==
  [pc |-> "idle", attempt |-> 0, maxRetries |-> 0, lastError |-> NULL,
   data |-> NULL, error |-> NULL, invoked |-> 0, hadSession |-> FALSE,
   now |-> 0, then |-> "query"]

\* the module state of lib/supabase.ts before any call, in the browser of a
\* signed-in user: Date.now() is far from 0, no reset has passed its guard
ClientStart ==
  [time |-> ResetGapMs, session |-> TRUE, clientHealthState |-> HealthyState(0),
   calls |-> [q \in Queries |-> NotCalled], resetAt |-> NullTime]

\* a successful forceNetworkReset or aggressiveNetworkReset
NetworkIsReset(h) ==
  [h EXCEPT !.networkCorruptionDetected = FALSE, !.consecutiveTimeouts = 0]

\* a failed test of checkSupabaseConnection
TestFailed(h) ==
  LET f == [h EXCEPT !.consecutiveFailures = @ + 1, !.isHealthy = FALSE]
  IN [f EXCEPT !.networkCorruptionDetected = @ \/ f.consecutiveFailures >= CorruptionAt]

\* clientHealthState after checkSupabaseConnection at clock t; the value it
\* returns is isHealthy of this state
HealthAfterCheck(h, t, resetOk, testsOk) ==
  LET checked == [h EXCEPT !.lastCheck = t]
  IN IF t - h.lastCheck < CheckGapMs THEN h
     ELSE IF h.networkCorruptionDetected /\ ~resetOk
       THEN [checked EXCEPT !.consecutiveFailures = @ + 1, !.isHealthy = FALSE]
     ELSE LET reset == IF h.networkCorruptionDetected THEN NetworkIsReset(checked)
                                                       ELSE checked
          IN IF testsOk
               THEN [reset EXCEPT !.consecutiveFailures = 0, !.isHealthy = TRUE,
                                  !.networkCorruptionDetected = FALSE]
               ELSE TestFailed(reset)

\* Promise.race([queryFn(), timeoutPromise]) is started
Invoke(c) == [c EXCEPT !.pc = "query", !.invoked = @ + 1]

\* where executeQuery goes on when resetSupabaseClient has returned: to the
\* query of this attempt, or to the next attempt
Continue(c) ==
  IF c.then = "query" THEN Invoke(c)
                      ELSE [c EXCEPT !.pc = "check", !.attempt = @ + 1]

\* the end of the catch block: the delay and the reset on a timeout while
\* attempts are left, and the return of the last error when none is
AfterCatch(c) ==
  IF c.attempt < c.maxRetries
    THEN IF c.lastError = MsgQueryTimeout
           THEN [c EXCEPT !.pc = "reset", !.then = "next"]
           ELSE [c EXCEPT !.pc = "check", !.attempt = @ + 1]
    ELSE [c EXCEPT !.pc = "done", !.data = NULL, !.error = c.lastError]

\* a row of links as the schema creates it
LinkRow(id, uid, url, code, active, exp) ==
  [id |-> id, user_id |-> uid, original_url |-> url, short_code |-> code,
   is_active |-> active, expires_at |-> exp, click_count |-> 0]

\* policy "Users can read own links": FOR SELECT
CanSelect(uid, row) == (uid # NULL /\ uid = row.user_id) \/ row.user_id = NULL

\* the update policy written like the select policy
CanUpdateOrGuest(uid, row) == (uid # NULL /\ uid = row.user_id) \/ row.user_id = NULL

\* policy "Users can update own links": FOR UPDATE
CanUpdate(uid, row) == uid # NULL /\ uid = row.user_id

\* policy "Users can insert links": FOR INSERT WITH CHECK
CanInsert(uid, row) == (uid # NULL /\ uid = row.user_id) \/ row.user_id = NULL

\* policy "Users can delete own links": FOR DELETE
CanDelete(uid, row) == uid # NULL /\ uid = row.user_id

\* the select without its eq('short_code', ...) filter
SelectAnyShortCode(uid, code) ==
  {id \in DOMAIN links : CanSelect(uid, links[id])}

\* the select with a filter on is_active: a deactivated link is no row
SelectActiveByShortCode(uid, code) ==
  {id \in DOMAIN links :
     links[id].short_code = code /\ links[id].is_active /\ CanSelect(uid, links[id])}

\* the ids of the rows a select ... eq('short_code', code) of session uid sees
SelectByShortCode(uid, code) ==
  {id \in DOMAIN links : links[id].short_code = code /\ CanSelect(uid, links[id])}

\* the projection of a row on the selected columns
Project(row, cols) == [c \in cols |-> row[c]]

\* what the await of a query resolves to: {data, error}, or a rejection
Reply(data, error, thrown) == [data |-> data, error |-> error, thrown |-> thrown]
NoReply == Reply(<<>>, NULL, FALSE)

\* .single(): one row is the data, any other number of rows is error PGRST116
Single(rows) ==
  IF Cardinality(rows) = 1
    THEN Reply(<<Project(links[CHOOSE id \in rows : TRUE], SelectColumns)>>, NULL, FALSE)
    ELSE Reply(<<>>, "PGRST116", FALSE)

\* ----------------------------------------------------------------- Resolver

Idle == [pc |-> "start", shortCode |-> "", uid |-> NULL, reply |-> NoReply,
         status |-> "loading", error |-> "", href |-> NULL, track |-> "none"]

\* if (linkError || !link)
LookupFailed(reply) == reply.error # NULL \/ reply.data = <<>>

\* the flag honoured only for links without an expiry
IsInactiveWithoutExpiry(link) == ~link.is_active /\ link.expires_at = NullTime

\* if (!link.is_active)
IsInactive(link) == ~link.is_active

\* the comparison turned round
IsExpiredReversed(link, t) == link.expires_at # NullTime /\ link.expires_at > t

\* if (link.expires_at && new Date(link.expires_at) < new Date())
IsExpired(link, t) == link.expires_at # NullTime /\ link.expires_at < t

\* the target cut down to its origin
RedirectTargetOrigin(link) == "https://example.com/"

\* window.location.href = link.original_url
RedirectTarget(link) == link.original_url

\* (link.click_count || 0) + 1, link being the selected projection
NewClickCount(link) ==
  (IF "click_count" \in DOMAIN link /\ link["click_count"] # 0
     THEN link["click_count"] ELSE 0) + 1

\* The outcome a finished resolution shows
Outcome(x) ==
  CASE x.status = "redirecting" -> "Redirect"
    [] x.status = "not-found" -> "NotFound"
    [] x.status = "error" /\ x.error \in {MsgDeactivated, MsgExpired} -> "Gone"
    [] x.status = "error" /\ x.error \notin {MsgDeactivated, MsgExpired} -> "InternalError"
    [] OTHER -> "Pending"

\* ---------------------------------------------------------------- Creation

\* a LandingPage on which "Shorten" was not clicked yet
Blank == [pc |-> "start", url |-> "", uid |-> NULL, shortCode |-> "",
          expiresAt |-> NullTime, reply |-> NoReply, attempts |-> 0,
          shortUrl |-> <<>>, toast |-> ""]

\* gen_random_uuid(): the id the row of creation c gets, new with every row
NewId(c) == IF c = 1 THEN "L1" ELSE "L2"

\* the short codes of the links in the Directory
CreatedCodes == {links[id].short_code : id \in DOMAIN links}

\* `${window.location.origin}/${shortCode}`
ShortUrl(shortCode) == <<"https://linkforge.app", "/", shortCode>>

\* ---------------------------------------------------------------- Dashboard

\* texts handed to toast and setError by the Dashboard
MsgDeleted == "Link deleted successfully"
MsgDeleteFailed == "Failed to delete link"
MsgLinkActivated == "Link activated"
MsgLinkDeactivated == "Link deactivated"
MsgUpdateFailed == "Failed to update link"
MsgLoadFailed == "Failed to load links"

\* the values of the lifecycle select, and what is typed into the search box:
\* nothing, or a whole short code
FilterValues == {"all", "active", "expired"}
SearchTerms == {"", "xyz9876"}

\* a Dashboard that is not mounted
Unmounted == [uid |-> NULL, links |-> <<>>, filteredLinks |-> <<>>, searchTerm |-> "",
              filterActive |-> "all", error |-> NULL, toast |-> ""]

\* text.toLowerCase().includes(search), for a search that is a whole short
\* code: no original_url of the model contains one, a short_code contains it
\* when it is that code
Includes(text, search) == text = search

\* the search filter of filterLinks (links have no title here)
MatchesSearch(link, searchTerm) ==
  \/ searchTerm = ""
  \/ Includes(link.original_url, searchTerm)
  \/ Includes(link.short_code, searchTerm)

\* the comparison made inclusive
DashIsExpiredInclusive(link, t) == link.expires_at # NullTime /\ link.expires_at <= t

\* const isExpired = link.expires_at && new Date(link.expires_at) < now
DashIsExpired(link, t) == link.expires_at # NullTime /\ link.expires_at < t

\* the active/expired filter of filterLinks
MatchesFilter(link, filterActive, t) ==
  CASE filterActive = "active" -> ~DashIsExpired(link, t) /\ link.is_active
    [] filterActive = "expired" -> DashIsExpired(link, t) \/ ~link.is_active
    [] OTHER -> TRUE

\* filterLinks at clock t: the rows of links that pass both filters
FilterLinks(d, t) ==
  [id \in {i \in DOMAIN d.links :
             /\ MatchesSearch(d.links[i], d.searchTerm)
             /\ MatchesFilter(d.links[i], d.filterActive, t)} |-> d.links[id]]

\* the effect on [links, searchTerm, filterActive]: filterLinks runs after
\* every change of one of them
Refilter(d, t) == [d EXCEPT !.filteredLinks = FilterLinks(d, t)]

\* a toggleActive that flips the displayed row before it looks at the answer
ToggledOptimistically(d, linkId, isActive, answer, t) ==
  Refilter([d EXCEPT
    !.links = [id \in DOMAIN d.links |->
                 IF id = linkId THEN [d.links[id] EXCEPT !.is_active = ~isActive]
                                ELSE d.links[id]],
    !.toast = IF answer # "ok" THEN MsgUpdateFailed
              ELSE IF ~isActive THEN MsgLinkActivated ELSE MsgLinkDeactivated], t)

\* setLinks(prev => prev.map(...)) and the toast of toggleActive, or its catch
ToggledLocally(d, linkId, isActive, answer, t) ==
  IF answer = "ok"
    THEN Refilter([d EXCEPT
           !.links = [id \in DOMAIN d.links |->
                        IF id = linkId THEN [d.links[id] EXCEPT !.is_active = ~isActive]
                                       ELSE d.links[id]],
           !.toast = IF ~isActive THEN MsgLinkActivated ELSE MsgLinkDeactivated], t)
    ELSE [d EXCEPT !.toast = MsgUpdateFailed]

\* setLinks(prev => prev.filter(...)) and the toast of handleDelete, or its catch
DeletedLocally(d, linkId, answer, t) ==
  IF answer = "ok"
    THEN Refilter([d EXCEPT
           !.links = [id \in DOMAIN d.links \ {linkId} |-> d.links[id]],
           !.toast = MsgDeleted], t)
    ELSE [d EXCEPT !.toast = MsgDeleteFailed]

\* one link is in the Directory: a guest link or a link of account u1 (u2 is
\* the account that does not own it), active or not, with or without expiry
Init ==
  /\ \E uid \in {"u1", NULL}, active \in BOOLEAN, exp \in {NullTime, 1} :
       links = [id \in {"L1"} |->
                 LinkRow(id, uid, "https://example.com/page", "abc1234", active, exp)]
  /\ link_analytics = {}
  /\ configured \in BOOLEAN
  /\ now = 0
  /\ res = [r \in Resolutions |-> Idle]
  /\ shorten = [c \in Creations |-> Blank]
  /\ dash = Unmounted
  /\ client = ClientStart

\* the lookup sent without a look at the configuration
handleRedirectNoConfigCheck(r, shortCode, uid) ==
  /\ res[r].pc = "start"
  /\ IF r = 1 THEN TRUE ELSE res[r - 1].pc # "start"
  /\ res' = [res EXCEPT ![r] =
       IF shortCode = ""
         THEN [@ EXCEPT !.pc = "done", !.shortCode = shortCode, !.uid = uid,
                        !.status = "not-found"]
       ELSE [@ EXCEPT !.pc = "lookup", !.shortCode = shortCode, !.uid = uid,
                      !.status = "loading"]]
  /\ UNCHANGED <<links, link_analytics, configured, now, shorten, dash, client>>

\* the configuration looked at before the short code
handleRedirectConfigFirst(r, shortCode, uid) ==
  /\ res[r].pc = "start"
  /\ IF r = 1 THEN TRUE ELSE res[r - 1].pc # "start"
  /\ res' = [res EXCEPT ![r] =
       IF ~configured
         THEN [@ EXCEPT !.pc = "done", !.shortCode = shortCode, !.uid = uid,
                        !.status = "error", !.error = MsgNotConfigured]
       ELSE IF shortCode = ""
         THEN [@ EXCEPT !.pc = "done", !.shortCode = shortCode, !.uid = uid,
                        !.status = "not-found"]
       ELSE [@ EXCEPT !.pc = "lookup", !.shortCode = shortCode, !.uid = uid,
                      !.status = "loading"]]
  /\ UNCHANGED <<links, link_analytics, configured, now, shorten, dash, client>>

\* handleRedirect up to its first await
handleRedirect(r, shortCode, uid) ==
  /\ res[r].pc = "start"
  /\ IF r = 1 THEN TRUE ELSE res[r - 1].pc # "start"
  /\ res' = [res EXCEPT ![r] =
       IF shortCode = ""
         THEN [@ EXCEPT !.pc = "done", !.shortCode = shortCode, !.uid = uid,
                        !.status = "not-found"]
       ELSE IF ~configured
         THEN [@ EXCEPT !.pc = "done", !.shortCode = shortCode, !.uid = uid,
                        !.status = "error", !.error = MsgNotConfigured]
       ELSE [@ EXCEPT !.pc = "lookup", !.shortCode = shortCode, !.uid = uid,
                      !.status = "loading"]]
  /\ UNCHANGED <<links, link_analytics, configured, now, shorten, dash, client>>

\* the database executes the lookup, or fails to
SelectLink(r, answer) ==
  /\ res[r].pc = "lookup"
  /\ res' = [res EXCEPT ![r].pc = "reply",
                        ![r].reply =
       CASE answer = "ok" -> Single(SelectByShortCode(res[r].uid, res[r].shortCode))
         [] answer = "error" -> Reply(<<>>, "unavailable", FALSE)
         [] answer = "throw" -> Reply(<<>>, NULL, TRUE)]
  /\ UNCHANGED <<links, link_analytics, configured, now, shorten, dash, client>>

\* handleRedirect from the answer of the lookup to its end; trackClick is
\* called, not awaited: it runs to its first await (the insert is sent, unless
\* its own configuration check returns) before the status is set and the
\* browser is sent to the target
handleRedirectReply(r, msg) ==
  /\ res[r].pc = "reply"
  /\ LET reply == res[r].reply
         link == reply.data[1]
     IN res' = [res EXCEPT ![r] =
          IF reply.thrown \/ (~LookupFailed(reply) /\ reply.data = <<>>)
            THEN [@ EXCEPT !.pc = "done", !.status = "error", !.error = msg]
          ELSE IF LookupFailed(reply)
            THEN [@ EXCEPT !.pc = "done", !.status = "not-found"]
          ELSE IF IsInactive(link)
            THEN [@ EXCEPT !.pc = "done", !.status = "error", !.error = MsgDeactivated]
          ELSE IF IsExpired(link, now)
            THEN [@ EXCEPT !.pc = "done", !.status = "error", !.error = MsgExpired]
          ELSE [@ EXCEPT !.pc = "done", !.status = "redirecting",
                         !.href = RedirectTarget(link),
                         !.track = IF configured THEN "insert" ELSE "finished"]]
  /\ UNCHANGED <<links, link_analytics, configured, now, shorten, dash, client>>

\* the insert awaited inside handleRedirect's own try: a rejection reaches the
\* outer catch
InsertAnalyticsAwaited(r, answer) ==
  /\ res[r].track = "insert"
  /\ LET link == res[r].reply.data[1]
     IN /\ link_analytics' =
             IF answer = "ok" /\ link.id \in DOMAIN links
               THEN link_analytics \cup {[id |-> r, link_id |-> link.id, timestamp |-> now]}
               ELSE link_analytics
        /\ res' = [res EXCEPT ![r] =
             IF answer = "throw"
               THEN [@ EXCEPT !.track = "caught", !.status = "error", !.error = MsgUnexpected]
               ELSE [@ EXCEPT !.track = "update"]]
  /\ UNCHANGED <<links, configured, now, shorten, dash, client>>

\* the insert sent twice, two rows stored for one redirect
InsertAnalyticsTwice(r, answer) ==
  /\ res[r].track = "insert"
  /\ LET link == res[r].reply.data[1]
     IN /\ link_analytics' =
             IF answer = "ok" /\ link.id \in DOMAIN links
               THEN link_analytics \cup {[id |-> r, link_id |-> link.id, timestamp |-> now],
                                         [id |-> r + 2, link_id |-> link.id, timestamp |-> now]}
               ELSE link_analytics
        /\ res' = [res EXCEPT ![r].track = IF answer = "throw" THEN "caught" ELSE "update"]
  /\ UNCHANGED <<links, configured, now, shorten, dash, client>>

\* trackClick: the insert into link_analytics is executed or fails; its result
\* is not looked at, a rejection ends trackClick in its catch
InsertAnalytics(r, answer) ==
  /\ res[r].track = "insert"
  /\ LET link == res[r].reply.data[1]
     IN /\ link_analytics' =
             IF answer = "ok" /\ link.id \in DOMAIN links
               THEN link_analytics \cup {[id |-> r, link_id |-> link.id, timestamp |-> now]}
               ELSE link_analytics
        /\ res' = [res EXCEPT ![r].track = IF answer = "throw" THEN "caught" ELSE "update"]
  /\ UNCHANGED <<links, configured, now, shorten, dash, client>>

\* the update writing the target back with the counter, cut to its origin
UpdateClickCountAndTarget(r, answer) ==
  /\ res[r].track = "update"
  /\ LET link == res[r].reply.data[1]
     IN /\ links' =
             IF answer = "ok" /\ link.id \in DOMAIN links /\ CanUpdate(res[r].uid, links[link.id])
               THEN [links EXCEPT ![link.id].click_count = NewClickCount(link),
                                  ![link.id].original_url = RedirectTargetOrigin(link)]
               ELSE links
        /\ res' = [res EXCEPT ![r].track = IF answer = "throw" THEN "caught" ELSE "finished"]
  /\ UNCHANGED <<link_analytics, configured, now, shorten, dash, client>>

\* the update awaited by handleRedirect, a rejection shown as an error
UpdateClickCountAwaited(r, answer) ==
  /\ res[r].track = "update"
  /\ LET link == res[r].reply.data[1]
     IN /\ links' =
             IF answer = "ok" /\ link.id \in DOMAIN links /\ CanUpdate(res[r].uid, links[link.id])
               THEN [links EXCEPT ![link.id].click_count = NewClickCount(link)]
               ELSE links
        /\ res' = [res EXCEPT ![r] =
             IF answer = "throw"
               THEN [@ EXCEPT !.track = "caught", !.status = "error", !.error = MsgConnect]
               ELSE [@ EXCEPT !.track = "finished"]]
  /\ UNCHANGED <<link_analytics, configured, now, shorten, dash, client>>

\* trackClick: the update of click_count is executed or fails
UpdateClickCount(r, answer) ==
  /\ res[r].track = "update"
  /\ LET link == res[r].reply.data[1]
     IN /\ links' =
             IF answer = "ok" /\ link.id \in DOMAIN links /\ CanUpdate(res[r].uid, links[link.id])
               THEN [links EXCEPT ![link.id].click_count = NewClickCount(link)]
               ELSE links
        /\ res' = [res EXCEPT ![r].track = IF answer = "throw" THEN "caught" ELSE "finished"]
  /\ UNCHANGED <<link_analytics, configured, now, shorten, dash, client>>

\* function increment_click_count(link_id), granted to anon and authenticated
increment_click_count(link_id) ==
  /\ link_id \in DOMAIN links
  /\ links[link_id].click_count < MaxCount
  /\ links' = [links EXCEPT ![link_id].click_count = @ + 1]
  /\ UNCHANGED <<link_analytics, configured, now, res, shorten, dash, client>>

\* the update written with the flag as displayed, not negated
toggleActiveSameFlag(uid, linkId, isActive, answer) ==
  /\ links' =
       IF answer = "ok" /\ linkId \in DOMAIN links /\ CanUpdate(uid, links[linkId])
         THEN [links EXCEPT ![linkId].is_active = isActive]
         ELSE links
  /\ dash' = IF dash.uid # NULL /\ dash.uid = uid
               THEN ToggledLocally(dash, linkId, isActive, answer, now)
               ELSE dash
  /\ UNCHANGED <<link_analytics, configured, now, res, shorten, client>>

\* Dashboard toggleActive(linkId, isActive) of the session uid: the update of
\* is_active reaches the rows the update policy lets the session touch; a
\* request that fails changes nothing
toggleActive(uid, linkId, isActive, answer) ==
  /\ links' =
       IF answer = "ok" /\ linkId \in DOMAIN links /\ CanUpdate(uid, links[linkId])
         THEN [links EXCEPT ![linkId].is_active = ~isActive]
         ELSE links
  /\ dash' = IF dash.uid # NULL /\ dash.uid = uid
               THEN ToggledLocally(dash, linkId, isActive, answer, now)
               ELSE dash
  /\ UNCHANGED <<link_analytics, configured, now, res, shorten, client>>

\* the delete on a link_analytics whose link_id lost its ON DELETE CASCADE
\* and its foreign key
handleDeleteNoCascade(uid, linkId, answer) ==
  /\ links' = IF answer = "ok" /\ linkId \in DOMAIN links /\ CanDelete(uid, links[linkId])
                 THEN [id \in DOMAIN links \ {linkId} |-> links[id]]
                 ELSE links
  /\ dash' = IF dash.uid # NULL /\ dash.uid = uid
               THEN DeletedLocally(dash, linkId, answer, now)
               ELSE dash
  /\ UNCHANGED <<link_analytics, configured, now, res, shorten, client>>

\* Dashboard handleDelete(linkId) of the session uid, the confirm answered
\* with yes: the delete reaches the rows the delete policy lets the session
\* touch, and link_analytics loses the rows that reference a deleted link
\* (ON DELETE CASCADE); a request that fails changes nothing
handleDelete(uid, linkId, answer) ==
  /\ LET deleted == answer = "ok" /\ linkId \in DOMAIN links /\ CanDelete(uid, links[linkId])
     IN /\ links' = IF deleted
                      THEN [id \in DOMAIN links \ {linkId} |-> links[id]]
                      ELSE links
        /\ link_analytics' = IF deleted
                               THEN {e \in link_analytics : e.link_id # linkId}
                               ELSE link_analytics
  /\ dash' = IF dash.uid # NULL /\ dash.uid = uid
               THEN DeletedLocally(dash, linkId, answer, now)
               ELSE dash
  /\ UNCHANGED <<configured, now, res, shorten, client>>

\* expiresAt.setDate(7): the day of the month set, the clock not added
handleShortenSetDate(c, url, uid, code) ==
  /\ shorten[c].pc = "start"
  /\ IF c = 1 THEN TRUE ELSE shorten[c - 1].pc # "start"
  /\ shorten' = [shorten EXCEPT ![c] =
       IF url = ""
         THEN [@ EXCEPT !.pc = "done", !.uid = uid, !.toast = MsgEnterUrl]
       ELSE IF ~configured
         THEN [@ EXCEPT !.pc = "done", !.url = url, !.uid = uid,
                        !.toast = MsgShortenNotConfigured]
       ELSE [@ EXCEPT !.pc = "insert", !.url = url, !.uid = uid, !.shortCode = code,
                      !.expiresAt = ExpiryDays, !.attempts = @ + 1]]
  /\ UNCHANGED <<links, link_analytics, configured, now, res, dash, client>>

\* handleShorten up to its await: the checks of the url and of the
\* configuration, one call of generateShortCode, the expiry computed on the
\* visitor's clock, the insert sent
handleShorten(c, url, uid, code) ==
  /\ shorten[c].pc = "start"
  /\ IF c = 1 THEN TRUE ELSE shorten[c - 1].pc # "start"
  /\ shorten' = [shorten EXCEPT ![c] =
       IF url = ""
         THEN [@ EXCEPT !.pc = "done", !.uid = uid, !.toast = MsgEnterUrl]
       ELSE IF ~configured
         THEN [@ EXCEPT !.pc = "done", !.url = url, !.uid = uid,
                        !.toast = MsgShortenNotConfigured]
       ELSE [@ EXCEPT !.pc = "insert", !.url = url, !.uid = uid, !.shortCode = code,
                      !.expiresAt = now + ExpiryDays, !.attempts = @ + 1]]
  /\ UNCHANGED <<links, link_analytics, configured, now, res, dash, client>>

\* the insert on a table whose short_code column lost its UNIQUE
InsertLinkNoUnique(c, answer) ==
  /\ shorten[c].pc = "insert"
  /\ LET x == shorten[c]
         row == LinkRow(NewId(c), x.uid, x.url, x.shortCode, TRUE, x.expiresAt)
         stored == answer = "ok" /\ CanInsert(x.uid, row)
     IN /\ links' = IF stored THEN links @@ (NewId(c) :> row) ELSE links
        /\ shorten' = [shorten EXCEPT ![c].pc = "reply",
                                      ![c].reply =
             CASE answer = "throw" -> Reply(<<>>, NULL, TRUE)
               [] answer = "error" -> Reply(<<>>, "unavailable", FALSE)
               [] answer = "ok" /\ stored -> Reply(<<row>>, NULL, FALSE)
               [] OTHER -> Reply(<<>>, "42501", FALSE)]
  /\ UNCHANGED <<link_analytics, configured, now, res, dash, client>>

\* the database executes insert(...).select().single(), or fails to: the row
\* is stored unless its short_code is already there (short_code UNIQUE,
\* SQLSTATE 23505) or the insert policy refuses it
InsertLink(c, answer) ==
  /\ shorten[c].pc = "insert"
  /\ LET x == shorten[c]
         row == LinkRow(NewId(c), x.uid, x.url, x.shortCode, TRUE, x.expiresAt)
         stored == /\ answer = "ok"
                   /\ CanInsert(x.uid, row)
                   /\ x.shortCode \notin CreatedCodes
     IN /\ links' = IF stored THEN links @@ (NewId(c) :> row) ELSE links
        /\ shorten' = [shorten EXCEPT ![c].pc = "reply",
                                      ![c].reply =
             CASE answer = "throw" -> Reply(<<>>, NULL, TRUE)
               [] answer = "error" -> Reply(<<>>, "unavailable", FALSE)
               [] answer = "ok" /\ stored -> Reply(<<row>>, NULL, FALSE)
               [] answer = "ok" /\ ~stored /\ ~CanInsert(x.uid, row) ->
                    Reply(<<>>, "42501", FALSE)
               [] OTHER -> Reply(<<>>, "23505", FALSE)]
  /\ UNCHANGED <<link_analytics, configured, now, res, dash, client>>

\* handleShorten from the answer of the insert to its end: if (error) throw
\* error, the short URL shown, or the catch and its toast
handleShortenReply(c, msg) ==
  /\ shorten[c].pc = "reply"
  /\ LET reply == shorten[c].reply
     IN shorten' = [shorten EXCEPT ![c] =
          IF reply.thrown
            THEN [@ EXCEPT !.pc = "done", !.toast = msg]
          ELSE IF reply.error # NULL
            THEN [@ EXCEPT !.pc = "done", !.toast = MsgShortenFailed]
          ELSE [@ EXCEPT !.pc = "done", !.shortUrl = ShortUrl(shorten[c].shortCode),
                         !.toast = MsgShortened]]
  /\ UNCHANGED <<links, link_analytics, configured, now, res, dash, client>>

\* Dashboard fetchLinks: the rows of the user, as the select policy and
\* eq('user_id', user.id) leave them, replace the displayed list; a request
\* that fails sets the error and leaves the list
fetchLinks(answer) ==
  /\ dash.uid # NULL
  /\ dash' =
       IF answer = "ok"
         THEN Refilter([dash EXCEPT
                !.links = [id \in {i \in DOMAIN links :
                                     /\ CanSelect(dash.uid, links[i])
                                     /\ links[i].user_id = dash.uid} |-> links[id]],
                !.error = NULL], now)
         ELSE [dash EXCEPT !.error = MsgLoadFailed]
  /\ UNCHANGED <<links, link_analytics, configured, now, res, shorten, client>>

\* the lifecycle select is changed to another value, filterLinks runs
setFilterActive(filterActive) ==
  /\ dash.uid # NULL
  /\ filterActive # dash.filterActive
  /\ dash' = Refilter([dash EXCEPT !.filterActive = filterActive], now)
  /\ UNCHANGED <<links, link_analytics, configured, now, res, shorten, client>>

\* the search box is changed to another text, filterLinks runs
setSearchTerm(searchTerm) ==
  /\ dash.uid # NULL
  /\ searchTerm # dash.searchTerm
  /\ dash' = Refilter([dash EXCEPT !.searchTerm = searchTerm], now)
  /\ UNCHANGED <<links, link_analytics, configured, now, res, shorten, client>>

\* the switch of a displayed row is clicked:
\* onClick={() => toggleActive(link.id, link.is_active)}
ClickToggle(linkId, answer) ==
  /\ linkId \in DOMAIN dash.filteredLinks
  /\ toggleActive(dash.uid, linkId, dash.filteredLinks[linkId].is_active, answer)

\* the bin of a displayed row is clicked and the confirm answered with yes
ClickDelete(linkId, answer) ==
  /\ linkId \in DOMAIN dash.filteredLinks
  /\ handleDelete(dash.uid, linkId, answer)

\* executeQuery is called: the configuration check and the options
executeQuery(q, maxRetries) ==
  /\ client.calls[q].pc = "idle"
  /\ client' = [client EXCEPT !.calls[q] =
       IF ~configured
         THEN [@ EXCEPT !.pc = "done", !.error = MsgQueryNotConfigured,
                        !.hadSession = client.session]
         ELSE [@ EXCEPT !.pc = "check", !.maxRetries = maxRetries,
                        !.hadSession = client.session]]
  /\ UNCHANGED <<links, link_analytics, configured, now, res, shorten, dash>>

\* the head of an attempt: await checkSupabaseConnection(), whose tests all
\* race a timer; healthy, the query is started, else the reset is called
checkSupabaseConnection(q, resetOk, testsOk) ==
  /\ client.calls[q].pc = "check"
  /\ LET h == HealthAfterCheck(client.clientHealthState, client.time, resetOk, testsOk)
     IN client' = [client EXCEPT
          !.clientHealthState = h,
          !.calls[q] = IF h.isHealthy THEN Invoke(@)
                                      ELSE [@ EXCEPT !.pc = "reset", !.then = "query"]]
  /\ UNCHANGED <<links, link_analytics, configured, now, res, shorten, dash>>

\* resetSupabaseClient up to its call of signOut: the guard on lastReset,
\* lastReset set, forceNetworkReset (whose fetch is aborted after 5 s)
resetSupabaseClient(q, resetOk) ==
  /\ client.calls[q].pc = "reset"
  /\ LET h == client.clientHealthState
     IN client' =
          IF client.time - h.lastReset < ResetGapMs
            THEN [client EXCEPT !.calls[q] = Continue(@)]
            ELSE [client EXCEPT
                   !.clientHealthState =
                      IF resetOk THEN NetworkIsReset([h EXCEPT !.lastReset = client.time])
                                 ELSE [h EXCEPT !.lastReset = client.time],
                   !.calls[q] = [@ EXCEPT !.pc = "signOut", !.now = client.time],
                   !.resetAt = client.time]
  /\ UNCHANGED <<links, link_analytics, configured, now, res, shorten, dash>>

\* supabase.auth.signOut() answers: the session is removed unless the request
\* failed; then the new client is assigned and clientHealthState replaced,
\* with the lastReset this call read when it began. A signOut that throws
\* goes to the catch, which only logs.
signOutReply(q, answer) ==
  /\ client.calls[q].pc = "signOut"
  /\ client' =
       IF answer = "throw"
         THEN [client EXCEPT !.calls[q] = Continue(@)]
         ELSE [client EXCEPT
                !.session = IF answer = "ok" THEN FALSE ELSE @,
                !.clientHealthState = HealthyState(client.calls[q].now),
                !.calls[q] = Continue(@)]
  /\ UNCHANGED <<links, link_analytics, configured, now, res, shorten, dash>>

\* the race of queryFn() and the timer ends: a result without error is
\* returned; a result with an error, a rejection or the timer go to the catch
queryReply(q, answer) ==
  /\ client.calls[q].pc = "query"
  /\ LET h == client.clientHealthState
         timeouts == h.consecutiveTimeouts + 1
     IN client' =
          CASE answer = "ok" ->
                 [client EXCEPT
                   !.clientHealthState = [h EXCEPT !.consecutiveTimeouts = 0],
                   !.calls[q] = [@ EXCEPT !.pc = "done", !.data = "rows", !.error = NULL]]
            [] answer = "timeout" ->
                 [client EXCEPT
                   !.clientHealthState = [h EXCEPT !.consecutiveTimeouts = timeouts],
                   !.calls[q] =
                      IF timeouts >= AggressiveAt
                        THEN [@ EXCEPT !.pc = "aggressive", !.lastError = MsgQueryTimeout]
                        ELSE AfterCatch([@ EXCEPT !.lastError = MsgQueryTimeout])]
            [] OTHER ->
                 [client EXCEPT
                   !.calls[q] = AfterCatch([@ EXCEPT !.lastError = MsgQueryFailed])]
  /\ UNCHANGED <<links, link_analytics, configured, now, res, shorten, dash>>

\* the fetches of aggressiveNetworkReset, which no timer races, have settled
aggressiveNetworkReset(q, resetOk) ==
  /\ client.calls[q].pc = "aggressive"
  /\ LET h == IF resetOk THEN NetworkIsReset(client.clientHealthState)
                         ELSE client.clientHealthState
     IN client' = [client EXCEPT
          !.clientHealthState = h,
          !.calls[q] = IF h.consecutiveTimeouts >= NuclearAt
                         THEN [@ EXCEPT !.pc = "nuclear"]
                         ELSE AfterCatch(@)]
  /\ UNCHANGED <<links, link_analytics, configured, now, res, shorten, dash>>

\* the fetches of nuclearNetworkReset, which no timer races, have settled
nuclearNetworkReset(q, resetOk) ==
  /\ client.calls[q].pc = "nuclear"
  /\ client' = [client EXCEPT
       !.clientHealthState =
          IF resetOk THEN [NetworkIsReset(@) EXCEPT !.consecutiveFailures = 0] ELSE @,
       !.calls[q] = AfterCatch(@)]
  /\ UNCHANGED <<links, link_analytics, configured, now, res, shorten, dash>>

\* Date.now() moves on
ClientTick ==
  /\ client.time < ResetGapMs + MaxTicks * ResetGapMs
  /\ client' = [client EXCEPT !.time = @ + ResetGapMs]
  /\ UNCHANGED <<links, link_analytics, configured, now, res, shorten, dash>>

Tick ==
  /\ now < MaxTime
  /\ now' = now + 1
  /\ UNCHANGED <<links, link_analytics, configured, res, shorten, dash, client>>

\* ------------------------------------------------------------------ claims

\* the lookup of x was answered with the row of a link
Found(x) == ~x.reply.thrown /\ x.reply.error = NULL /\ x.reply.data # <<>>

\* the row the lookup of x was answered with
View(x) == x.reply.data[1]

\* this step is the one in which resolution r handles the answer of its lookup
Decides(r) == res[r].pc = "reply" /\ res'[r].pc = "done"

\* this step is the one in which the database answers the lookup of r
GetsAnswer(r) == res[r].pc = "lookup" /\ res'[r].pc = "reply"

\* this step is the database answering the lookup of r, and not with a failure
AnswersFromStore(r) ==
  /\ res[r].pc = "lookup"
  /\ res'[r].pc = "reply"
  /\ ~res'[r].reply.thrown
  /\ res'[r].reply.error # "unavailable"

\* resolution r has written nothing and no step of r writes: it has started no
\* tracking, no row of link_analytics is its own, and its step leaves both
\* tables as they were
WritesNothing(r) ==
  /\ res'[r].track = "none"
  /\ \A e \in link_analytics' : e.id # r
  /\ res'[r] # res[r] => (links' = links /\ link_analytics' = link_analytics)

C2_LookupFailureIsInternalError ==
  \A r \in Resolutions :
    (res[r].pc = "done" /\ (res[r].reply.thrown \/ res[r].reply.error = "unavailable"))
    => Outcome(res[r]) = "InternalError"

\* C3: a resolution whose lookup is answered with a link that has
\* is_active = false ends in Gone, whatever its expires_at is, and writes
\* nothing: no row of link_analytics, no click_count.
C3_InactiveIsGone ==
  [][\A r \in Resolutions :
       /\ (Decides(r) /\ Found(res[r]) /\ ~View(res[r]).is_active)
            => (Outcome(res'[r]) = "Gone" /\ res'[r].error = MsgDeactivated)
       /\ (res'[r].status = "error" /\ res'[r].error = MsgDeactivated)
            => WritesNothing(r)]_vars

\* a deactivated link whose expiry has also passed is reported as deactivated
C3_Witness ==
  \E r \in Resolutions :
    /\ res[r].pc = "done"
    /\ Outcome(res[r]) = "Gone"
    /\ Found(res[r])
    /\ ~View(res[r]).is_active
    /\ View(res[r]).expires_at # NullTime
    /\ View(res[r]).expires_at < now

\* C4: a resolution whose lookup is answered with a link that is active and
\* whose expires_at lies before the resolver's clock ends in Gone and writes
\* nothing.
C4_ExpiredIsGone ==
  [][\A r \in Resolutions :
       /\ (/\ Decides(r)
           /\ Found(res[r])
           /\ View(res[r]).is_active
           /\ View(res[r]).expires_at # NullTime
           /\ View(res[r]).expires_at < now)
            => (Outcome(res'[r]) = "Gone" /\ res'[r].error = MsgExpired)
       /\ (res'[r].status = "error" /\ res'[r].error = MsgExpired)
            => WritesNothing(r)]_vars

C4_Witness ==
  \E r \in Resolutions :
    /\ res[r].pc = "done"
    /\ res[r].error = MsgExpired
    /\ View(res[r]).is_active
    /\ View(res[r]).expires_at < now

\* C5: the lookup of a non-empty code that no link has at the moment the
\* store answers is answered without a row, and a resolution whose lookup was
\* answered without a row ends in NotFound and writes nothing.
C5_UnknownCodeIsNotFound ==
  [][\A r \in Resolutions :
       /\ (/\ AnswersFromStore(r)
           /\ \A id \in DOMAIN links : links[id].short_code # res[r].shortCode)
            => (res'[r].reply.data = <<>> /\ res'[r].reply.error = "PGRST116")
       /\ (Decides(r) /\ res[r].reply.data = <<>> /\ ~res[r].reply.thrown)
            => (Outcome(res'[r]) = "NotFound" /\ WritesNothing(r))]_vars

C5_Witness ==
  \E r \in Resolutions :
    /\ res[r].pc = "done"
    /\ res[r].shortCode = "nosuch1"
    /\ res[r].reply.error = "PGRST116"
    /\ res[r].status = "not-found"

\* C6: once a resolution has ended in Redirect, no later step (the event
\* insert and the counter update succeeding, failing or staying out) changes
\* its status, its error text or the address it redirected to.
C6_TrackingKeepsOutcome ==
  [][\A r \in Resolutions :
       res[r].status = "redirecting"
       => (/\ res'[r].status = "redirecting"
           /\ res'[r].error = res[r].error
           /\ res'[r].href = res[r].href)]_vars

\* a redirect whose tracking was rejected
C6_Witness ==
  \E r \in Resolutions :
    /\ res[r].status = "redirecting"
    /\ res[r].track = "caught"

\* C7: no step lowers the click_count of a link.
C7_ClickCountNeverDecreases ==
  [][\A id \in DOMAIN links :
       id \in DOMAIN links' => links'[id].click_count >= links[id].click_count]_vars

\* resolution r is not under way: not begun, or ended with its tracking ended
Quiet(r) ==
  \/ res[r].pc = "start"
  \/ res[r].pc = "done" /\ res[r].track \in {"none", "finished", "caught"}

\* C8: when N resolutions of the code of a resolvable link have run one after
\* another, each lookup answered with the link and every tracking write
\* succeeding, all N ended in Redirect and click_count has grown from 0 to N.
C8_CountsEveryRedirect ==
  ((\A r \in Resolutions : Quiet(r))
   /\ links["L1"].is_active
   /\ ~(links["L1"].expires_at # NullTime /\ links["L1"].expires_at < now))
  => LET N == Cardinality({r \in Resolutions : res[r].pc = "done" /\ Found(res[r])})
     IN /\ Cardinality({r \in Resolutions : Outcome(res[r]) = "Redirect"}) = N
        /\ links["L1"].click_count = N

C10_RaceEndsInRedirectOrGone ==
  [][\A r \in Resolutions :
       /\ \A id \in DOMAIN links :
            (/\ AnswersFromStore(r)
             /\ links[id].short_code = res[r].shortCode
             /\ CanSelect(res[r].uid, links[id]))
            => res'[r].reply = Reply(<<Project(links[id], SelectColumns)>>, NULL, FALSE)
       /\ (Decides(r) /\ Found(res[r]))
            => (/\ Outcome(res'[r]) \in {"Redirect", "Gone"}
                /\ Outcome(res'[r]) = "Redirect"
                     => (View(res[r]).is_active /\ res'[r].href = View(res[r]).original_url)
                /\ ~View(res[r]).is_active => Outcome(res'[r]) = "Gone")]_vars

\* a resolution that was answered before the deactivation and redirected after it
C10_Witness ==
  \E r \in Resolutions :
    /\ res[r].status = "redirecting"
    /\ res[r].track = "insert"
    /\ View(res[r]).is_active
    /\ View(res[r]).id \in DOMAIN links
    /\ ~links[View(res[r]).id].is_active

\* this step is the one in which the database stores the row of creation c
Commits(c) ==
  /\ shorten[c].pc = "insert"
  /\ NewId(c) \notin DOMAIN links
  /\ NewId(c) \in DOMAIN links'

\* C11: no two links in the Directory have the same short_code, before and
\* after every step; the step that stores the row of a creation stores a code
\* no link had before the step, and a creation is answered with a row only by
\* such a step, also when another creation generated the same code.
C11_ShortCodesUnique ==
  [][/\ \A i, j \in DOMAIN links : i # j => links[i].short_code # links[j].short_code
     /\ \A i, j \in DOMAIN links' : i # j => links'[i].short_code # links'[j].short_code
     /\ \A c \in Creations :
          /\ Commits(c) => (/\ shorten[c].shortCode \notin CreatedCodes
                            /\ links'[NewId(c)].short_code = shorten[c].shortCode)
          /\ (shorten[c].pc = "insert" /\ shorten'[c].reply.data # <<>>)
               => Commits(c)]_vars

\* creation 1 generated its code before creation 2 began; creation 2 generated
\* the same code and was stored first, creation 1 was refused
C11_Witness ==
  /\ shorten[1].shortCode = shorten[2].shortCode
  /\ shorten[2].reply.data # <<>>
  /\ "L2" \in DOMAIN links
  /\ shorten[1].reply.error = "23505"
  /\ "L1" \notin DOMAIN links

\* C12: a creation whose insert was refused because its code was taken
\* (SQLSTATE 23505) does not end in failure after that one attempt: it has
\* generated another code and sent another insert.
C12_CollisionIsRetried ==
  \A c \in Creations :
    (/\ shorten[c].pc = "done"
     /\ shorten[c].reply.error = "23505"
     /\ shorten[c].toast = MsgShortenFailed)
    => shorten[c].attempts > 1

\* C13: no resolution waits for the answer of its lookup forever: a
\* resolution that has sent its lookup leaves the loading state, with the
\* answer or, the answer staying out, with InternalError.
C13_LookupIsBounded ==
  \A r \in Resolutions : (res[r].pc = "lookup") ~> (res[r].pc = "done")

\* C14: a resolution whose lookup is answered with a link ends in Redirect
\* exactly when the link is active and its expires_at is NULL or lies after
\* the resolver's clock; with expires_at equal to the clock it does not
\* redirect.
C14_RedirectsIffResolvable ==
  [][\A r \in Resolutions :
       (Decides(r) /\ Found(res[r]))
       => (Outcome(res'[r]) = "Redirect"
             <=> (/\ View(res[r]).is_active
                  /\ (View(res[r]).expires_at = NullTime
                        \/ View(res[r]).expires_at > now)))]_vars

\* this step is the one in which creation c builds its row and sends it
Builds(c) == shorten[c].pc = "start" /\ shorten'[c].pc = "insert"

\* C15: the row a guest's handleShorten builds has expires_at = the clock at
\* that moment + 7 days, and the row the Directory stores for the creation
\* has no owner and that expires_at.
C15_GuestLinkExpiresAfterSevenDays ==
  [][\A c \in Creations :
       /\ (Builds(c) /\ shorten'[c].uid = NULL)
            => shorten'[c].expiresAt = now + 7
       /\ (Commits(c) /\ shorten[c].uid = NULL)
            => (/\ links'[NewId(c)].user_id = NULL
                /\ links'[NewId(c)].expires_at = shorten[c].expiresAt
                /\ links'[NewId(c)].expires_at # NullTime)]_vars

\* a guest link created on day 1 and stored with expiry day 8
C15_Witness ==
  \E id \in DOMAIN links :
    /\ links[id].user_id = NULL
    /\ links[id].expires_at = 8

\* C16: before and after every step each row of link_analytics references a
\* link that is in the Directory: the step that deletes a link leaves none of
\* its events, and no step adds an event for a link that is not there.
C16_EventsReferenceLinks ==
  [][/\ \A e \in link_analytics : e.link_id \in DOMAIN links
     /\ \A e \in link_analytics' : e.link_id \in DOMAIN links'
     /\ \A e \in link_analytics' \ link_analytics : e.link_id \in DOMAIN links]_vars

\* the link was deleted after a redirect whose tracking insert has not arrived
\* yet, and after another redirect whose tracking had ended
C16_Witness ==
  /\ "L1" \notin DOMAIN links
  /\ link_analytics = {}
  /\ \E r, q \in Resolutions :
       /\ res[r].track = "insert"
       /\ res[q].track = "finished"

\* C17: a toggleActive or a handleDelete on a link by a session that is not
\* the link's owner (another account, the anon role, anyone on a guest link)
\* leaves links and link_analytics as they were; a step that changes the
\* is_active of a link or removes it is the toggleActive or the handleDelete
\* of its owner, so the record of a guest link is never switched or deleted.
C17_OnlyOwnerSwitchesOrDeletes ==
  [][\A id \in DOMAIN links :
       /\ \A u \in Uids :
            (u = NULL \/ u # links[id].user_id)
            => (/\ \A b \in BOOLEAN :
                     toggleActive(u, id, b, "ok") => links' = links
                /\ handleDelete(u, id, "ok")
                     => (links' = links /\ link_analytics' = link_analytics))
       /\ (id \in DOMAIN links' /\ links'[id].is_active # links[id].is_active)
            => (/\ links[id].user_id # NULL
                /\ toggleActive(links[id].user_id, id, links[id].is_active, "ok"))
       /\ id \notin DOMAIN links'
            => (/\ links[id].user_id # NULL
                /\ handleDelete(links[id].user_id, id, "ok"))]_vars

\* a guest link that is still there and active beside a link its owner has
\* switched off
C17_Witness ==
  \E i, j \in DOMAIN links :
    /\ links[i].user_id = NULL
    /\ links[i].is_active
    /\ links[j].user_id = "u1"
    /\ ~links[j].is_active

\* this step is the one in which resolution r begins
Begins(r) == res[r].pc = "start" /\ res'[r].pc # "start"

C19_OneOutcomeForGood ==
  [][\A r \in Resolutions :
       /\ res'[r].pc # "done" => Outcome(res'[r]) = "Pending"
       /\ res'[r].pc = "done"
            => Outcome(res'[r]) \in {"Redirect", "NotFound", "Gone", "InternalError"}
       /\ res'[r].href # NULL <=> Outcome(res'[r]) = "Redirect"
       /\ res'[r].track # "none" => Outcome(res'[r]) = "Redirect"
       /\ Outcome(res[r]) # "Pending"
            => (Outcome(res'[r]) = Outcome(res[r]) /\ res'[r].href = res[r].href)]_vars

\* a redirect whose event was stored and whose counter update was rejected,
\* beside a resolution that ended in another outcome
C19_Witness ==
  \E r, q \in Resolutions :
    /\ Outcome(res[r]) = "Redirect"
    /\ res[r].track = "caught"
    /\ \E e \in link_analytics : e.id = r
    /\ Outcome(res[q]) \in {"NotFound", "Gone", "InternalError"}

\* C20: no step changes the short_code or the original_url (or the id) of a
\* link that is in the Directory before and after the step.
C20_CodeAndTargetKeep ==
  [][\A id \in DOMAIN links :
       id \in DOMAIN links'
       => (/\ links'[id].short_code = links[id].short_code
           /\ links'[id].original_url = links[id].original_url
           /\ links'[id].id = links[id].id)]_vars

\* the link was resolved, its counter was written and its owner switched it
\* off; it has the code and the target it began with
C20_Witness ==
  /\ "L1" \in DOMAIN links
  /\ links["L1"].click_count = 1
  /\ ~links["L1"].is_active
  /\ links["L1"].short_code = "abc1234"
  /\ links["L1"].original_url = "https://example.com/page"
  /\ \E r \in Resolutions :
       /\ res[r].track = "finished"
       /\ View(res[r]).is_active

\* this step is the counter update of r's tracking, executed without error
\* on a link the session may update
CounterWritten(r) ==
  /\ res[r].track = "update"
  /\ UpdateClickCount(r, "ok")
  /\ View(res[r]).id \in DOMAIN links
  /\ res[r].uid # NULL
  /\ res[r].uid = links[View(res[r]).id].user_id

\* C21: tracking sends the counter update only after the event insert was
\* answered, and a counter update that is executed without error leaves
\* click_count one above the value stored before the step.
C21_CounterGrowsByOne ==
  [][\A r \in Resolutions :
       /\ res'[r].track = "update" => res[r].track \in {"insert", "update"}
       /\ CounterWritten(r)
            => links'[View(res[r]).id].click_count
                 = links[View(res[r]).id].click_count + 1]_vars

\* C22: however the event insert of a tracking ends (stored, answered with an
\* error, or the call rejected), the counter update is attempted next; and
\* the step that ends the counter update, in whatever way, leaves the events
\* in the store.
C22_TrackingWritesIndependent ==
  [][\A r \in Resolutions :
       /\ (res[r].track = "insert" /\ res'[r].track # "insert")
            => res'[r].track = "update"
       /\ (res[r].track = "update" /\ res'[r].track # "update")
            => link_analytics' = link_analytics]_vars

\* this step ends the event insert of r's tracking, the link being there, with
\* no event stored: the insert failed for a reason that is not the link's
FailsInsert(r) ==
  /\ res[r].track = "insert"
  /\ res'[r].track # "insert"
  /\ View(res[r]).id \in DOMAIN links
  /\ \A e \in link_analytics' : e.id # r

\* C23: tracking sends each write once, so every failure is the failure of the
\* first attempt; a write whose first attempt fails is not dropped: the event
\* insert stays to be sent again, and a rejected counter update does not end
\* the tracking.
C23_FailedWriteIsRetried ==
  [][\A r \in Resolutions :
       /\ ~FailsInsert(r)
       /\ ~(res[r].track = "update" /\ res'[r].track = "caught")]_vars

\* the events stored for link id, and the resolutions that redirected to it
EventsOf(id) == {e \in link_analytics : e.link_id = id}
RedirectsTo(id) ==
  {r \in Resolutions : Outcome(res[r]) = "Redirect" /\ View(res[r]).id = id}

\* C24: for every link the number of rows of link_analytics that reference it
\* is at most the number of resolutions that ended in Redirect to it.
C24_OneEventPerRedirect ==
  \A id \in Ids : Cardinality(EventsOf(id)) <= Cardinality(RedirectsTo(id))

\* two redirects of the link, and the event of each in the store
C24_Witness ==
  /\ Cardinality(EventsOf("L1")) = 2
  /\ Cardinality(RedirectsTo("L1")) = 2

WouldRedirect(link, t) == ~IsInactive(link) /\ ~IsExpired(link, t)

\* the link is shown in the Dashboard's table
Listed(d, id) == id \in DOMAIN d.filteredLinks

\* the step changes a dependency of the effect that calls filterLinks
FilterRuns ==
  \/ dash'.links # dash.links
  \/ dash'.searchTerm # dash.searchTerm
  \/ dash'.filterActive # dash.filterActive

\* C28 as stated: at any instant, with no search typed, a link of the
\* Dashboard's list that is in the Directory is shown under 'active' exactly
\* when the resolver would redirect its stored row now, and under 'expired'
\* exactly when it would refuse it.
C28_FilterAgreesAtAnyInstant ==
  \A id \in DOMAIN dash.links :
    (id \in DOMAIN links /\ dash.searchTerm = "")
    => (/\ dash.filterActive = "active"
             => (Listed(dash, id) <=> WouldRedirect(links[id], now))
        /\ dash.filterActive = "expired"
             => (Listed(dash, id) <=> ~WouldRedirect(links[id], now)))

\* C28, amended: when filterLinks runs (a step that changes the list, the
\* search term or the filter of the Dashboard), with no search typed, a row of the Dashboard's list is shown under 'active'
\* exactly when the resolver, given that row at that clock, would redirect,
\* and under 'expired' exactly when it would refuse; each row passes exactly
\* one of the two filters, and 'all' shows every row.
C28_FilterAgreesWhenComputed ==
  [][FilterRuns
     => \A id \in DOMAIN dash'.links :
          LET row == dash'.links[id]
          IN /\ MatchesFilter(row, "active", now) # MatchesFilter(row, "expired", now)
             /\ dash'.searchTerm = ""
                  => (/\ dash'.filterActive = "active"
                           => (Listed(dash', id) <=> WouldRedirect(row, now))
                      /\ dash'.filterActive = "expired"
                           => (Listed(dash', id) <=> ~WouldRedirect(row, now))
                      /\ dash'.filterActive = "all" => Listed(dash', id))]_vars

\* under 'active' at clock 2: the link that expired at 1 is not shown, the link
\* that expires at 2 is
C28_Witness ==
  /\ now = 2
  /\ dash.filterActive = "active"
  /\ dash.searchTerm = ""
  /\ DOMAIN dash.links = {"L1", "L2"}
  /\ dash.links["L1"].is_active
  /\ dash.links["L1"].expires_at = 1
  /\ ~Listed(dash, "L1")
  /\ Listed(dash, "L2")

\* C29: a click on the switch or the bin of a displayed row whose write is
\* answered with an error, or not answered at all, leaves the Dashboard's list
\* and the displayed rows exactly as they were and ends with the toast of the
\* failure; and the list only changes in a fetchLinks that was answered or in
\* a click whose write reported no error.
C29_ListChangesOnlyAfterWrite ==
  [][/\ \A l \in Ids, answer \in {"error", "throw"} :
          (ClickToggle(l, answer) \/ ClickDelete(l, answer))
          => /\ dash'.links = dash.links
             /\ dash'.filteredLinks = dash.filteredLinks
             /\ dash'.toast \in {MsgUpdateFailed, MsgDeleteFailed}
     /\ dash'.links # dash.links
          => \/ fetchLinks("ok")
             \/ \E l \in Ids :
                  \/ ClickToggle(l, "ok") /\ dash'.toast \in {MsgLinkActivated, MsgLinkDeactivated}
                  \/ ClickDelete(l, "ok") /\ dash'.toast = MsgDeleted]_vars

\* a write has failed while both links were displayed, and both still are, as
\* the Directory has them
C29_Witness ==
  /\ dash.toast \in {MsgUpdateFailed, MsgDeleteFailed}
  /\ DOMAIN dash.filteredLinks = {"L1", "L2"}
  /\ dash.links = links

\* C25: a call of executeQuery that has returned, and that was made while the
\* user had a session, finds the session still there.
C25_SessionSurvivesExecuteQuery ==
  \A q \in Queries :
    (client.calls[q].pc = "done" /\ client.calls[q].hadSession) => client.session

\* C26: every call of executeQuery that has passed its configuration check
\* eventually returns.
C26_ExecuteQueryReturns ==
  \A q \in Queries :
    (client.calls[q].pc = "check") ~> (client.calls[q].pc = "done")

\* C30: a reset that passes its guard and goes on to sign out does so at least
\* ResetGapMs after the reset that passed the guard before it.
C30_ResetsTenSecondsApart ==
  [][\A q \in Queries :
       (client.calls[q].pc = "reset" /\ client'.calls[q].pc = "signOut")
       => (client.resetAt = NullTime \/ client.time - client.resetAt >= ResetGapMs)]_vars

Answers == {"ok", "error", "throw"}

Next ==
  \/ \E r \in Resolutions, c \in ShortCodes, u \in Uids : handleRedirect(r, c, u)
  \/ \E r \in Resolutions, a \in Answers : SelectLink(r, a)
  \/ \E r \in Resolutions, m \in {MsgConnect, MsgUnexpected} : handleRedirectReply(r, m)
  \/ \E r \in Resolutions, a \in Answers : InsertAnalytics(r, a)
  \/ \E r \in Resolutions, a \in Answers : UpdateClickCount(r, a)
  \/ \E l \in Ids : increment_click_count(l)
  \/ \E u \in Uids, l \in DOMAIN links, b \in BOOLEAN, a \in {"ok", "error"} :
       toggleActive(u, l, b, a)
  \/ \E u \in Uids, l \in DOMAIN links, a \in {"ok", "error"} : handleDelete(u, l, a)
  \/ Tick

Spec == Init /\ [][Next]_vars

\* a visitor opens the link's short URL when no other resolution is under way
ResolveInTurn(r, uid) ==
  /\ \A q \in Resolutions \ {r} : Quiet(q)
  /\ handleRedirect(r, "abc1234", uid)

\* resolutions one after another, every request answered without a failure
NextInTurn ==
  \/ \E r \in Resolutions, u \in Uids : ResolveInTurn(r, u)
  \/ \E r \in Resolutions : SelectLink(r, "ok")
  \/ \E r \in Resolutions : handleRedirectReply(r, MsgUnexpected)
  \/ \E r \in Resolutions : InsertAnalytics(r, "ok")
  \/ \E r \in Resolutions : UpdateClickCount(r, "ok")
  \/ Tick

SpecInTurn == Init /\ [][NextInTurn]_vars

\* the browser runs what the source schedules: the continuation of
\* handleRedirect once the answer of its lookup is there, and the clock. The
\* source sets no timer, and nothing makes the database answer.
SpecInTurnFair ==
  /\ SpecInTurn
  /\ \A r \in Resolutions : WF_vars(handleRedirectReply(r, MsgUnexpected))
  /\ WF_vars(Tick)

\* a signed-in user's page before its calls of executeQuery
InitClient ==
  /\ links = <<>>
  /\ link_analytics = {}
  /\ configured \in BOOLEAN
  /\ now = 0
  /\ res = [r \in Resolutions |-> Idle]
  /\ shorten = [c \in Creations |-> Blank]
  /\ dash = Unmounted
  /\ client = ClientStart

\* the calls run side by side, each network request answered in any way or
\* not at all
NextClient ==
  \/ \E q \in Queries, m \in RetryOptions : executeQuery(q, m)
  \/ \E q \in Queries, resetOk, testsOk \in BOOLEAN :
       checkSupabaseConnection(q, resetOk, testsOk)
  \/ \E q \in Queries, resetOk \in BOOLEAN : resetSupabaseClient(q, resetOk)
  \/ \E q \in Queries, a \in Answers : signOutReply(q, a)
  \/ \E q \in Queries, a \in Answers \cup {"timeout"} : queryReply(q, a)
  \/ \E q \in Queries, resetOk \in BOOLEAN : aggressiveNetworkReset(q, resetOk)
  \/ \E q \in Queries, resetOk \in BOOLEAN : nuclearNetworkReset(q, resetOk)
  \/ ClientTick

SpecClient == InitClient /\ [][NextClient]_vars

\* what the runtime guarantees: a timer that was set fires (the timers the
\* tests of the health check, the fetch of forceNetworkReset and queryFn race,
\* and the delay), and the clock moves. No answer of the network is
\* guaranteed.
SpecClientFair ==
  /\ SpecClient
  /\ \A q \in Queries :
       /\ WF_vars(checkSupabaseConnection(q, FALSE, FALSE))
       /\ WF_vars(resetSupabaseClient(q, FALSE))
       /\ WF_vars(queryReply(q, "timeout"))
  /\ WF_vars(ClientTick)

\* account u1 has two links and opens its Dashboard
InitDash ==
  /\ \E active \in BOOLEAN, exp \in {NullTime, 1} :
       links = ("L1" :> LinkRow("L1", "u1", "https://example.com/page", "abc1234", active, exp))
               @@ ("L2" :> LinkRow("L2", "u1", "https://example.com/page", "xyz9876", TRUE, 2))
  /\ link_analytics = {}
  /\ configured = TRUE
  /\ now = 0
  /\ res = [r \in Resolutions |-> Idle]
  /\ shorten = [c \in Creations |-> Blank]
  /\ dash = [Unmounted EXCEPT !.uid = "u1"]
  /\ client = ClientStart

\* the Dashboard is used while the clock runs and links are clicked
NextDash ==
  \/ \E a \in {"ok", "error"} : fetchLinks(a)
  \/ \E f \in FilterValues : setFilterActive(f)
  \/ \E t \in SearchTerms : setSearchTerm(t)
  \/ \E l \in Ids, a \in Answers : ClickToggle(l, a)
  \/ \E l \in Ids, a \in Answers : ClickDelete(l, a)
  \/ \E l \in Ids : increment_click_count(l)
  \/ Tick

SpecDash == InitDash /\ [][NextDash]_vars

\* the Directory before the first link is created
InitLinks ==
  /\ links = <<>>
  /\ link_analytics = {}
  /\ configured \in BOOLEAN
  /\ now = 0
  /\ res = [r \in Resolutions |-> Idle]
  /\ shorten = [c \in Creations |-> Blank]
  /\ dash = Unmounted
  /\ client = ClientStart

\* links are created, switched and deleted
NextLinks ==
  \/ \E c \in Creations, url \in Urls, u \in Uids, code \in Codes : handleShorten(c, url, u, code)
  \/ \E c \in Creations, a \in Answers : InsertLink(c, a)
  \/ \E c \in Creations, m \in {MsgConnectionFailed, MsgShortenFailed} : handleShortenReply(c, m)
  \/ \E u \in Uids, l \in Ids, a \in {"ok", "error"} : handleDelete(u, l, a)
  \/ \E u \in Uids, l \in Ids, b \in BOOLEAN, a \in {"ok", "error"} : toggleActive(u, l, b, a)
  \/ Tick

SpecLinks == InitLinks /\ [][NextLinks]_vars
====
